---- MODULE Spec2Model ----
(***************************************************************************)
(* A model of the wall calendar application (app/main.py): the fetch of    *)
(* the events through the process-wide CACHE (fetch_events), the           *)
(* normalisation of timed and all-day events, the all-day row layout and   *)
(* the day columns of calendar(), and the theme selection                  *)
(* (get_theme_mode).                                                       *)
(*                                                                         *)
(* Dates are day numbers (integers), instants are minutes since 00:00 UTC  *)
(* of day 0.  A Python dict is a function; the empty dict {} is <<>>.      *)
(* A request is a thread running calendar(); its steps are the points at   *)
(* which it reads or writes the shared CACHE, the clock or the server.     *)
(***************************************************************************)
EXTENDS Integers, Sequences, FiniteSets, TLC

----------------------------------------------------------------------------
(* Bounds of the model *)

\* number of raw events the calendar server holds at most
MaxEvents == 3
\* the largest date (day number) an event's DTSTART may carry
MaxDate == 2
\* the largest configured DAYS_TO_SHOW
MaxDays == 3
\* the number of steps the clock makes
MaxTicks == 2

----------------------------------------------------------------------------
(* Program constants *)

CACHE_DURATION == 900

MinutesPerHour == 60

MinutesPerDay == 24 * MinutesPerHour

----------------------------------------------------------------------------
(* Generic helpers *)

None == [k |-> "None"]

\* the empty dict {}
EmptyDict == [k \in {} |-> None]

Range(s) == {s[i] : i \in 1..Len(s)}

\* dict.get(key, default)
Get(d, key, default) == IF key \in DOMAIN d THEN d[key] ELSE default

\* Python's comparison of two 2-tuples
TupleLess(k1, k2) == k1[1] < k2[1] \/ (k1[1] = k2[1] /\ k1[2] < k2[2])

\* an unstable sort: x goes before the elements of equal key
RECURSIVE InsertBeforeEqual(_, _, _)
InsertBeforeEqual(sorted, x, key) ==
    IF sorted = <<>> THEN <<x>>
    ELSE IF ~TupleLess(key[Head(sorted)], key[x])
         THEN <<x>> \o sorted
         ELSE <<Head(sorted)>> \o InsertBeforeEqual(Tail(sorted), x, key)

\* list.sort(key=...) is stable: x goes behind every element whose key is not
\* greater than its own
RECURSIVE InsertByKey(_, _, _)
InsertByKey(sorted, x, key) ==
    IF sorted = <<>> THEN <<x>>
    ELSE IF TupleLess(key[x], key[Head(sorted)])
         THEN <<x>> \o sorted
         ELSE <<Head(sorted)>> \o InsertByKey(Tail(sorted), x, key)

RECURSIVE SortByKey(_, _)
SortByKey(s, key) ==
    IF s = <<>> THEN <<>>
    ELSE InsertByKey(SortByKey(SubSeq(s, 1, Len(s) - 1), key), s[Len(s)], key)

----------------------------------------------------------------------------
(* Values of the calendar data: datetime.date and datetime.datetime *)

\* a datetime.date
Date(d) == [type |-> "date", day |-> d]

\* a datetime.datetime: its wall-clock fields as minutes since 00:00 of day 0,
\* and its tzinfo ("None" for a naive one, else the UTC offset in minutes)
DateTime(m, tz) == [type |-> "datetime", minute |-> m, tzinfo |-> tz]

UTC == [utcoffset |-> 0]

\* tz.gettz(TIMEZONE_STR) for the default 'Europe/Berlin': UTC+1, and UTC+2
\* from the start of summer time, which the model puts at 01:00 UTC of day 1
DstStart == MinutesPerDay + MinutesPerHour

get_timezone(utc_minute) ==
    IF utc_minute < DstStart
    THEN [utcoffset |-> MinutesPerHour]
    ELSE [utcoffset |-> 2 * MinutesPerHour]

\* dt.astimezone(local_tz) of an aware datetime
astimezone(dt) ==
    LET utc_minute == dt.minute - dt.tzinfo.utcoffset
        local_tz == get_timezone(utc_minute)
    IN  DateTime(utc_minute + local_tz.utcoffset, local_tz)

\* the timedelta added to the instant, and the result converted to the display
\* timezone again
plus_timedelta_instant(dt, n) ==
    astimezone(DateTime(dt.minute - dt.tzinfo.utcoffset + n, UTC))

\* dt + datetime.timedelta(minutes=n): arithmetic on the wall-clock fields,
\* the tzinfo is kept as it is
plus_timedelta(dt, n) == [dt EXCEPT !.minute = @ + n]

\* dt.date()
date_of(dt) == dt.minute \div MinutesPerDay

\* dt.strftime("%H:%M"): the four digits of the zero-padded "HH:MM"
strftime(dt) ==
    LET tod == dt.minute % MinutesPerDay
        hh == tod \div MinutesPerHour
        mm == tod % MinutesPerHour
    IN  <<hh \div 10, hh % 10, mm \div 10, mm % 10>>

\* datetime.datetime.now(local_tz) at the clock's instant
now_local(clk) == astimezone(DateTime(clk, UTC))

----------------------------------------------------------------------------
(* fetch_events: the normalisation of the events of one fetch *)

\* lines 233-264: one timed event
timed_event(ical_data) ==
    LET dtstart == IF ical_data.dtstart.tzinfo = None
                   THEN [ical_data.dtstart EXCEPT !.tzinfo = UTC]
                   ELSE ical_data.dtstart
        dtstart_local == astimezone(dtstart)
        dtend == ical_data.dtend
        end_time_str ==
            IF dtend # None
            THEN IF dtend.type = "datetime"
                 THEN strftime(astimezone(IF dtend.tzinfo = None
                                          THEN [dtend EXCEPT !.tzinfo = UTC]
                                          ELSE dtend))
                 ELSE <<>>
            ELSE strftime(plus_timedelta(dtstart_local, MinutesPerHour))
    IN  [summary |-> ical_data.summary,
         time |-> strftime(dtstart_local),
         end_time |-> end_time_str,
         is_all_day |-> FALSE,
         sort_key |-> dtstart_local]

\* lines 266-280: one all-day event
all_day_event(ical_data) ==
    LET dtstart == ical_data.dtstart
        dtend == IF ical_data.dtend = None
                 THEN Date(dtstart.day + 1)
                 ELSE IF ical_data.dtend = dtstart
                      THEN Date(dtstart.day + 1)
                      ELSE ical_data.dtend
    IN  [summary |-> ical_data.summary,
         start |-> dtstart.day,
         end |-> dtend.day,
         is_all_day |-> TRUE]

\* lines 252-255: data['timed'][date_key].append(ev)
bucket_append(timed, date_key, ev) ==
    IF date_key \in DOMAIN timed
    THEN [timed EXCEPT ![date_key] = Append(@, ev)]
    ELSE timed @@ (date_key :> <<ev>>)

\* lines 205-280: the loop over the results; reading the dtstart of an event
\* that has none raises, which leaves the loop
RECURSIVE process_results(_, _)
process_results(results, data) ==
    IF results = <<>> THEN [raised |-> FALSE, data |-> data]
    ELSE LET ical_data == Head(results) IN
         IF ical_data.dtstart = None THEN [raised |-> TRUE, data |-> data]
         ELSE IF ical_data.dtstart.type = "datetime"
              THEN LET ev == timed_event(ical_data) IN
                   process_results(Tail(results),
                       [data EXCEPT !.timed =
                           bucket_append(@, date_of(ev.sort_key), ev)])
              ELSE process_results(Tail(results),
                       [data EXCEPT !.all_day = Append(@, all_day_event(ical_data))])

\* the key of line 284: aware datetimes with the same tzinfo compare by
\* their wall-clock fields
sort_key_of(x) == <<x.sort_key.minute, 0>>

\* lines 282-284
sort_timed(timed) ==
    [day \in DOMAIN timed |->
        SortByKey(timed[day], [x \in Range(timed[day]) |-> sort_key_of(x)])]

\* lines 184-284: the data of a fetch that got `results` from the server
build_data(results) ==
    LET r == process_results(results, [timed |-> EmptyDict, all_day |-> <<>>])
    IN  IF r.raised THEN r
        ELSE [raised |-> FALSE, data |-> [r.data EXCEPT !.timed = sort_timed(@)]]

----------------------------------------------------------------------------
(* calendar: the view window, the all-day layout and the day columns *)

\* get_date_range, lines 87-97: DAYS_TO_SHOW dates from yesterday on
get_date_range(clk, days) ==
    LET yesterday == date_of(now_local(clk)) - 1
    IN  [i \in 1..days |-> yesterday + (i - 1)]

\* dates.format_date(d, format='MMM d'): the text is a function of the date
format_date(d) == [format |-> "MMM d", date |-> d]

\* lines 310-313
visible_filter(raw_all_day, view_start, view_end) ==
    SelectSeq(raw_all_day, LAMBDA ev : ev.start < view_end /\ ev.end > view_start)

\* the key of line 316
all_day_key(x) == <<x.start, x.start - x.end>>

\* line 316
sort_all_day(visible) ==
    SortByKey(visible, [x \in Range(visible) |-> all_day_key(x)])

\* a first fit that compares the end of the event with the end of the row
first_fit_by_end(rows, ev) ==
    LET fits == {i \in 1..Len(rows) : ev.end >= rows[i]}
    IN  IF fits = {} THEN -1
        ELSE (CHOOSE i \in fits : \A j \in fits : i <= j) - 1

\* lines 340-345: the first row (0-based) whose end the event starts at or
\* after, or -1
first_fit(rows, ev) ==
    LET fits == {i \in 1..Len(rows) : ev.start >= rows[i]}
    IN  IF fits = {} THEN -1
        ELSE (CHOOSE i \in fits : \A j \in fits : i <= j) - 1

\* lines 321-373: one pass of the loop over visible_all_day
placement(ev, rows, view_start, view_end, ndays) ==
    LET is_left == ev.start < view_start
        col_start == IF is_left THEN 1 ELSE (ev.start - view_start) + 1
        is_right == ev.end > view_end
        col_end == IF is_right THEN ndays + 1 ELSE (ev.end - view_start) + 1
        found == first_fit(rows, ev)
        assigned_row == IF found = -1 THEN (Len(rows) + 1) - 1 ELSE found
        inclusive_end == ev.end - 1
        start_str == format_date(ev.start)
        end_str == format_date(inclusive_end)
    IN  [summary |-> ev.summary,
         col_start |-> col_start,
         col_span |-> col_end - col_start,
         row |-> assigned_row + 1,
         is_left |-> is_left,
         is_right |-> is_right,
         date_range |-> IF ev.start = inclusive_end
                        THEN <<start_str>>
                        ELSE <<start_str, "-", end_str>>]

\* lines 344 and 348: the rows after the event is placed
rows_after(ev, rows) ==
    LET found == first_fit(rows, ev)
    IN  IF found = -1 THEN Append(rows, ev.end)
        ELSE [rows EXCEPT ![found + 1] = ev.end]

\* lines 318-373
RECURSIVE layout_loop(_, _, _, _, _, _)
layout_loop(visible, rows, processed, view_start, view_end, ndays) ==
    IF visible = <<>> THEN [rows |-> rows, processed_all_day |-> processed]
    ELSE LET ev == Head(visible) IN
         layout_loop(Tail(visible), rows_after(ev, rows),
                     Append(processed, placement(ev, rows, view_start, view_end, ndays)),
                     view_start, view_end, ndays)

\* lines 302-373: the sorted visible events, the rows and the placements
layout(fetched, days_to_show) ==
    LET view_start == days_to_show[1]
        view_end == days_to_show[Len(days_to_show)] + 1
        raw_all_day == Get(fetched, "all_day", <<>>)
        visible == sort_all_day(visible_filter(raw_all_day, view_start, view_end))
        r == layout_loop(visible, <<>>, <<>>, view_start, view_end, Len(days_to_show))
    IN  [visible_all_day |-> visible,
         rows |-> r.rows,
         processed_all_day |-> r.processed_all_day]

\* lines 375-397
columns_of(fetched, days_to_show, clk) ==
    LET timed_events == Get(fetched, "timed", EmptyDict)
        today == date_of(now_local(clk))
    IN  [i \in 1..Len(days_to_show) |->
            [is_today |-> days_to_show[i] = today,
             date_str |-> format_date(days_to_show[i]),
             events |-> Get(timed_events, days_to_show[i], <<>>)]]

----------------------------------------------------------------------------
(* get_theme_mode *)

\* an environment variable that is set to the text s; an unset one is None
Env(s) == [value |-> s]

\* Python's `not x` for an environment variable: unset or empty
is_falsy(x) == x = None \/ x = Env("")

\* float(x) raises ValueError for a text that is no number
float_raises(x) == x.value \notin {"48.1", "11.6"}

\* a theme selection that takes only 'light' from THEME
get_theme_mode_light_only(theme, latitude, longitude, sun, clk) ==
    IF theme = "light" THEN theme
    ELSE IF is_falsy(latitude) \/ is_falsy(longitude) THEN "dark"
    ELSE IF float_raises(latitude) \/ float_raises(longitude) \/ sun = None
         THEN "dark"
    ELSE LET now_minute == now_local(clk).minute % MinutesPerDay
         IN  IF sun.sunrise + 45 < now_minute /\ now_minute < sun.sunset - 30
             THEN "light" ELSE "dark"

\* lines 50-85; `sun` is what astral computes for the day: the minutes of
\* sunrise and sunset, or None when the computation raises
get_theme_mode(theme, latitude, longitude, sun, clk) ==
    IF theme \in {"light", "dark"} THEN theme
    ELSE IF is_falsy(latitude) \/ is_falsy(longitude) THEN "dark"
    ELSE IF float_raises(latitude) \/ float_raises(longitude) \/ sun = None
         THEN "dark"
    ELSE LET now_minute == now_local(clk).minute % MinutesPerDay
             light_start == sun.sunrise + 45
             light_end == sun.sunset - 30
         IN  IF light_start < now_minute /\ now_minute < light_end
             THEN "light" ELSE "dark"

----------------------------------------------------------------------------
(* The state *)

VARIABLES
    \* configuration (lines 20-30), fixed once the process has started
    DAYS_TO_SHOW, THEME, LATITUDE, LONGITUDE, credentials,
    \* the environment: the raw events of the calendar server in the order a
    \* search returns them, and the clock (minutes since 00:00 UTC of day 0)
    server, clock,
    \* the process-wide cache (line 34): a dict with the keys 'timestamp', 'data'
    CACHE,
    \* per request: where it is, and the locals of calendar() and fetch_events()
    pc, theme, days_to_show, now, results, data, fetched_data, response,
    \* history: the data of the last fetch that succeeded, and the data of the
    \* fetch that wrote CACHE['timestamp']
    last_good, timestamp_data

config == <<DAYS_TO_SHOW, THEME, LATITUDE, LONGITUDE, credentials>>

locals == <<theme, days_to_show, now, results, data, fetched_data, response>>

vars == <<DAYS_TO_SHOW, THEME, LATITUDE, LONGITUDE, credentials, server, clock,
          CACHE, pc, theme, days_to_show, now, results, data, fetched_data,
          response, last_good, timestamp_data>>

Threads == 1..2

\* all-day events: they start between the day before the first window and
\* MaxDate, and have no end, or one on the day before the start, on the
\* start, or two days after it
AllDayEvents ==
    UNION {{[dtstart |-> Date(d), dtend |-> e] :
                e \in {None, Date(d - 1), Date(d), Date(d + 2)}} :
            d \in (-1)..MaxDate}

\* US Eastern Standard Time, as the tzinfo of an aware datetime
EST == [utcoffset |-> -5 * MinutesPerHour]

\* timed events: they start at 22:30 or 23:30 UTC of day 0 or at 00:30 UTC of
\* day 1, given as naive, as UTC or as EST datetimes, and have no end; and
\* one with a datetime and one with a date as its end
TimedStarts == {22 * MinutesPerHour + 30, 23 * MinutesPerHour + 30, MinutesPerDay + 30}

TimedEvents ==
    {[dtstart |-> DateTime(m, None), dtend |-> None] : m \in TimedStarts}
    \cup {[dtstart |-> DateTime(m + tz.utcoffset, tz), dtend |-> None] :
            m \in TimedStarts, tz \in {UTC, EST}}
    \cup {[dtstart |-> DateTime(23 * MinutesPerHour + 30, UTC), dtend |-> e] :
            e \in {DateTime(MinutesPerDay + 45, None), Date(1)}}

\* an event without DTSTART
MalformedEvents == {[dtstart |-> None, dtend |-> None]}

\* the server's results for the events evs: the summary of an event is its
\* place in the results
Results(evs) ==
    [i \in 1..Len(evs) |->
        [summary |-> i, dtstart |-> evs[i].dtstart, dtend |-> evs[i].dtend]]

\* the sequences of at most n elements of S
SeqsUpTo(S, n) == UNION {[1..k -> S] : k \in 0..n}

\* the state of a process that has just started, with the given configuration
\* and the given events on the server
Start(cfg, evs) ==
    /\ DAYS_TO_SHOW = cfg.DAYS_TO_SHOW
    /\ THEME = cfg.THEME
    /\ LATITUDE = cfg.LATITUDE
    /\ LONGITUDE = cfg.LONGITUDE
    /\ credentials = cfg.credentials
    /\ server = Results(evs)
    /\ clock = MinutesPerDay
    /\ CACHE = EmptyDict
    /\ pc = [t \in Threads |-> "idle"]
    /\ theme = [t \in Threads |-> None]
    /\ days_to_show = [t \in Threads |-> <<>>]
    /\ now = [t \in Threads |-> 0]
    /\ results = [t \in Threads |-> None]
    /\ data = [t \in Threads |-> None]
    /\ fetched_data = [t \in Threads |-> None]
    /\ response = [t \in Threads |-> None]
    /\ last_good = None
    /\ timestamp_data = None

----------------------------------------------------------------------------
(* The environment *)

\* an event appears on the server; its summary is its place in the results
AddEvent(events) ==
    /\ Len(server) < MaxEvents
    /\ \E e \in events :
         server' = Append(server, [summary |-> Len(server) + 1,
                                   dtstart |-> e.dtstart, dtend |-> e.dtend])
    /\ UNCHANGED <<config, clock, CACHE, pc, locals, last_good, timestamp_data>>

\* time passes, `step` minutes at a time
Tick(step) ==
    /\ clock + step <= MinutesPerDay + MaxTicks * step
    /\ clock' = clock + step
    /\ UNCHANGED <<config, server, CACHE, pc, locals, last_good, timestamp_data>>

----------------------------------------------------------------------------
(* A request: calendar(), with fetch_events() in it *)

\* lines 299-300 and 138: the theme, the view window and `now`
Request(t) ==
    /\ pc[t] = "idle"
    /\ \E sun \in {None, [sunrise |-> 6 * MinutesPerHour, sunset |-> 18 * MinutesPerHour]} :
         theme' = [theme EXCEPT ![t] =
                      get_theme_mode(THEME, LATITUDE, LONGITUDE, sun, clock)]
    /\ days_to_show' = [days_to_show EXCEPT ![t] = get_date_range(clock, DAYS_TO_SHOW)]
    /\ now' = [now EXCEPT ![t] = clock]
    /\ pc' = [pc EXCEPT ![t] = "check_cache"]
    /\ UNCHANGED <<config, server, clock, CACHE, results, data, fetched_data,
                   response, last_good, timestamp_data>>

\* lines 141-143: is there a timestamp younger than CACHE_DURATION seconds
cache_is_fresh(t) ==
    /\ "timestamp" \in DOMAIN CACHE
    /\ (now[t] - CACHE["timestamp"]) * 60 < CACHE_DURATION

\* lines 141-145, the cache is fresh
CacheHit(t) ==
    /\ pc[t] = "check_cache"
    /\ cache_is_fresh(t)
    /\ pc' = [pc EXCEPT ![t] = "cache_hit"]
    /\ UNCHANGED <<config, server, clock, CACHE, locals, last_good, timestamp_data>>

\* line 145: return CACHE['data'], a KeyError when there is none
ReadCached(t) ==
    /\ pc[t] = "cache_hit"
    /\ IF "data" \in DOMAIN CACHE
       THEN /\ fetched_data' = [fetched_data EXCEPT ![t] = CACHE["data"]]
            /\ pc' = [pc EXCEPT ![t] = "render"]
            /\ UNCHANGED response
       ELSE /\ response' = [response EXCEPT ![t] = [status |-> 500, error |-> "KeyError"]]
            /\ pc' = [pc EXCEPT ![t] = "done"]
            /\ UNCHANGED fetched_data
    /\ UNCHANGED <<config, server, clock, CACHE, theme, days_to_show, now, results,
                   data, last_good, timestamp_data>>

\* lines 141-149, the cache is not fresh
CacheMiss(t) ==
    /\ pc[t] = "check_cache"
    /\ ~cache_is_fresh(t)
    /\ IF credentials
       THEN /\ pc' = [pc EXCEPT ![t] = "fetch"]
            /\ UNCHANGED fetched_data
       ELSE /\ fetched_data' = [fetched_data EXCEPT ![t] = EmptyDict]
            /\ pc' = [pc EXCEPT ![t] = "render"]
    /\ UNCHANGED <<config, server, clock, CACHE, theme, days_to_show, now, results,
                   data, response, last_good, timestamp_data>>

\* lines 153-203: the server cannot be reached, or fails during the search
FetchFails(t) ==
    /\ pc[t] = "fetch"
    /\ results' = [results EXCEPT ![t] = [raised |-> "upstream"]]
    /\ pc' = [pc EXCEPT ![t] = "except"]
    /\ UNCHANGED <<config, server, clock, CACHE, theme, days_to_show, now, data,
                   fetched_data, response, last_good, timestamp_data>>

\* lines 164-182: the server has none of the configured calendars
FetchNoCalendars(t) ==
    /\ pc[t] = "fetch"
    /\ fetched_data' = [fetched_data EXCEPT ![t] = EmptyDict]
    /\ pc' = [pc EXCEPT ![t] = "render"]
    /\ UNCHANGED <<config, server, clock, CACHE, theme, days_to_show, now, results,
                   data, response, last_good, timestamp_data>>

\* lines 201-284: the search returns the server's events, which are
\* normalised into `data`
FetchResults(t) ==
    /\ pc[t] = "fetch"
    /\ results' = [results EXCEPT ![t] = [raised |-> "no", events |-> server]]
    /\ LET r == build_data(server) IN
         IF r.raised
         THEN /\ pc' = [pc EXCEPT ![t] = "except"]
              /\ UNCHANGED data
         ELSE /\ data' = [data EXCEPT ![t] = r.data]
              /\ pc' = [pc EXCEPT ![t] = "write_timestamp"]
    /\ UNCHANGED <<config, server, clock, CACHE, theme, days_to_show, now,
                   fetched_data, response, last_good, timestamp_data>>

\* line 287
WriteTimestamp(t) ==
    /\ pc[t] = "write_timestamp"
    /\ CACHE' = ("timestamp" :> now[t]) @@ CACHE
    /\ timestamp_data' = data[t]
    /\ pc' = [pc EXCEPT ![t] = "write_data"]
    /\ UNCHANGED <<config, server, clock, locals, last_good>>

\* lines 288-289
WriteData(t) ==
    /\ pc[t] = "write_data"
    /\ CACHE' = ("data" :> data[t]) @@ CACHE
    /\ fetched_data' = [fetched_data EXCEPT ![t] = data[t]]
    /\ last_good' = data[t]
    /\ pc' = [pc EXCEPT ![t] = "render"]
    /\ UNCHANGED <<config, server, clock, theme, days_to_show, now, results, data,
                   response, timestamp_data>>

\* an exception handler that forgets the cache
ExceptWithoutCache(t) ==
    /\ pc[t] = "except"
    /\ fetched_data' = [fetched_data EXCEPT ![t] = EmptyDict]
    /\ pc' = [pc EXCEPT ![t] = "render"]
    /\ UNCHANGED <<config, server, clock, CACHE, theme, days_to_show, now, results,
                   data, response, last_good, timestamp_data>>

\* lines 291-295
Except(t) ==
    /\ pc[t] = "except"
    /\ fetched_data' = [fetched_data EXCEPT ![t] =
                           IF "data" \in DOMAIN CACHE THEN CACHE["data"] ELSE EmptyDict]
    /\ pc' = [pc EXCEPT ![t] = "render"]
    /\ UNCHANGED <<config, server, clock, CACHE, theme, days_to_show, now, results,
                   data, response, last_good, timestamp_data>>

\* lines 302-399
Render(t) ==
    /\ pc[t] = "render"
    /\ LET l == layout(fetched_data[t], days_to_show[t]) IN
         response' = [response EXCEPT ![t] =
            [status |-> 200,
             columns |-> columns_of(fetched_data[t], days_to_show[t], clock),
             visible_all_day |-> l.visible_all_day,
             all_day_events |-> l.processed_all_day,
             theme |-> theme[t]]]
    /\ pc' = [pc EXCEPT ![t] = "done"]
    /\ UNCHANGED <<config, server, clock, CACHE, theme, days_to_show, now, results,
                   data, fetched_data, last_good, timestamp_data>>

\* the response is sent and the request's locals are gone
Respond(t) ==
    /\ pc[t] = "done"
    /\ theme' = [theme EXCEPT ![t] = None]
    /\ days_to_show' = [days_to_show EXCEPT ![t] = <<>>]
    /\ now' = [now EXCEPT ![t] = 0]
    /\ results' = [results EXCEPT ![t] = None]
    /\ data' = [data EXCEPT ![t] = None]
    /\ fetched_data' = [fetched_data EXCEPT ![t] = None]
    /\ response' = [response EXCEPT ![t] = None]
    /\ pc' = [pc EXCEPT ![t] = "idle"]
    /\ UNCHANGED <<config, server, clock, CACHE, last_good, timestamp_data>>

calendar(t) ==
    \/ Request(t)
    \/ CacheHit(t)
    \/ ReadCached(t)
    \/ CacheMiss(t)
    \/ FetchFails(t)
    \/ FetchNoCalendars(t)
    \/ FetchResults(t)
    \/ WriteTimestamp(t)
    \/ WriteData(t)
    \/ Except(t)
    \/ Render(t)
    \/ Respond(t)

----------------------------------------------------------------------------
(* Specifications *)

DefaultConfig ==
    [DAYS_TO_SHOW |-> MaxDays, THEME |-> "auto", LATITUDE |-> Env("48.1"),
     LONGITUDE |-> Env("11.6"), credentials |-> TRUE]

NextWith(events, step, threads) ==
    \/ AddEvent(events)
    \/ Tick(step)
    \/ \E t \in threads : calendar(t)

\* Concurrent requests; the clock moves in steps of ten minutes.
Init == Start(DefaultConfig, <<>>)

Next == NextWith({[dtstart |-> Date(1), dtend |-> None]}, 10, Threads)

Spec == Init /\ [][Next]_vars

\* One request at a time against a server that may fail and may hold a
\* malformed event, every window length; the clock moves in steps of ten
\* minutes.
MixedEvents ==
    {[dtstart |-> Date(1), dtend |-> None],
     [dtstart |-> DateTime(23 * MinutesPerHour + 30, UTC), dtend |-> None]}
    \cup MalformedEvents

InitFetch ==
    \E n \in 1..MaxDays : Start([DefaultConfig EXCEPT !.DAYS_TO_SHOW = n], <<>>)

NextFetch == NextWith(MixedEvents, 10, {1})

SpecFetch == InitFetch /\ [][NextFetch]_vars

\* The all-day layout as a function of the events on the server: one request
\* at a time, the server and the clock stand still; the window is the
\* MaxDays days from day 0 on.
InitAllDay == \E evs \in SeqsUpTo(AllDayEvents, MaxEvents) : Start(DefaultConfig, evs)

NextAllDay == \E t \in {1} : calendar(t)

SpecAllDay == InitAllDay /\ [][NextAllDay]_vars

\* The normalisation of timed events as a function of the events on the
\* server: one request at a time, the server and the clock stand still.
InitTimed == \E evs \in SeqsUpTo(TimedEvents, MaxEvents) : Start(DefaultConfig, evs)

NextTimed == \E t \in {1} : calendar(t)

SpecTimed == InitTimed /\ [][NextTimed]_vars

\* One request at a time under every configuration of the theme; the clock
\* moves in steps of six hours.
InitTheme ==
    \E th \in {"light", "dark", "auto", "solarized"},
       lat \in {None, Env(""), Env("48.1"), Env("abc")},
       lon \in {None, Env(""), Env("11.6")},
       cr \in BOOLEAN :
        Start([DefaultConfig EXCEPT !.THEME = th, !.LATITUDE = lat,
                                    !.LONGITUDE = lon, !.credentials = cr], <<>>)

NextTheme == NextWith({[dtstart |-> Date(1), dtend |-> None]}, 6 * MinutesPerHour, {1})

SpecTheme == InitTheme /\ [][NextTheme]_vars

----------------------------------------------------------------------------
(* Properties *)

\* the requests that hold a rendered page
Rendered == {t \in Threads : pc[t] = "done" /\ response[t].status = 200}

\* the requests whose fetch has built its data from the server's results
Built == {t \in Threads : data[t] # None}

\* every timed event of a data, from all its buckets
TimedOf(d) == UNION {Range(d.timed[day]) : day \in DOMAIN d.timed}

\* the minute of the day that the digits of an "HH:MM" text say
MinuteOfDay(str) == (str[1] * 10 + str[2]) * MinutesPerHour + str[3] * 10 + str[4]

\* C1: two distinct placements of a page that have the same row index have
\* disjoint date intervals: one ends (exclusive) no later than the other starts.
C1_SameRowDisjoint ==
    \A t \in Rendered :
        LET p == response[t].all_day_events
            v == response[t].visible_all_day
        IN  \A i, j \in 1..Len(p) :
                (i # j /\ p[i].row = p[j].row) =>
                    (v[i].end <= v[j].start \/ v[j].end <= v[i].start)

\* a page on which a row holds two events
C1_Witness ==
    \E t \in Rendered :
        LET p == response[t].all_day_events
        IN  \E i, j \in 1..Len(p) : i # j /\ p[i].row = p[j].row

\* the number of events of v that cover the day d
Covering(v, d) == Cardinality({i \in 1..Len(v) : v[i].start <= d /\ d < v[i].end})

\* the largest number of events of v that cover a common day
MaxOverlap(v) ==
    LET days == UNION {v[i].start..(v[i].end - 1) : i \in 1..Len(v)}
    IN  IF days = {} THEN 0
        ELSE CHOOSE n \in 0..Len(v) :
                 /\ \E d \in days : Covering(v, d) = n
                 /\ \A d \in days : Covering(v, d) <= n

\* the highest row index of the placements p
RowsUsed(p) ==
    IF p = <<>> THEN 0
    ELSE CHOOSE r \in 1..Len(p) :
             /\ \E i \in 1..Len(p) : p[i].row = r
             /\ \A i \in 1..Len(p) : p[i].row <= r

\* C2: the number of rows the layout uses equals the largest number of
\* visible events that cover a common day.
C2_RowsMinimal ==
    \A t \in Rendered :
        RowsUsed(response[t].all_day_events) = MaxOverlap(response[t].visible_all_day)

\* The layout is minimal on the pages whose visible events all end after they
\* start: C2 fails only through the events that C4 lets into the data.
RowsMinimalWhenWellFormed ==
    \A t \in Rendered :
        LET v == response[t].visible_all_day IN
        (\A i \in 1..Len(v) : v[i].end > v[i].start) =>
            RowsUsed(response[t].all_day_events) = MaxOverlap(v)

\* C3: every placement of a page has col_span >= 1.
C3_ColSpanPositive ==
    \A t \in Rendered :
        \A i \in 1..Len(response[t].all_day_events) :
            response[t].all_day_events[i].col_span >= 1

\* The placement of an event that ends after it starts has col_span >= 1: C3
\* fails only through the events that C4 lets into the data.
ColSpanPositiveWhenWellFormed ==
    \A t \in Rendered :
        LET v == response[t].visible_all_day IN
        \A i \in 1..Len(v) :
            v[i].end > v[i].start => response[t].all_day_events[i].col_span >= 1

\* C4: every all-day event that a fetch stores ends strictly after it starts.
C4_AllDayNeverZeroLength ==
    \A t \in Built :
        \A i \in 1..Len(data[t].all_day) :
            data[t].all_day[i].end > data[t].all_day[i].start

\* does the fetched data d hold the event with the summary s
Holds(d, s) ==
    /\ d # EmptyDict
    /\ \/ \E i \in 1..Len(d.all_day) : d.all_day[i].summary = s
       \/ \E x \in TimedOf(d) : x.summary = s

\* C5: when the search returned events of which some are malformed, every
\* other event of the results is in what fetch_events returns.
C5_OnlyMalformedRejected ==
    \A t \in Threads :
        (pc[t] = "render" /\ results[t] # None /\ results[t].raised = "no") =>
            \A i \in 1..Len(results[t].events) :
                results[t].events[i].dtstart # None =>
                    Holds(fetched_data[t], results[t].events[i].summary)

\* C6: a request whose upstream fetch failed gets from fetch_events the data
\* of the last successful fetch, or the empty result when there was none,
\* and its page has DAYS_TO_SHOW columns; with the empty result all their
\* event lists are empty and there is no all-day placement.
C6_UpstreamFailureDegrades ==
    \A t \in Threads :
        (results[t] # None /\ results[t].raised = "upstream") =>
            \/ pc[t] = "except"
            \/ /\ pc[t] \in {"render", "done"}
               /\ fetched_data[t] = (IF last_good # None THEN last_good ELSE EmptyDict)
               /\ pc[t] = "done" =>
                    /\ response[t].status = 200
                    /\ Len(response[t].columns) = DAYS_TO_SHOW
                    /\ fetched_data[t] = EmptyDict =>
                        /\ \A i \in 1..DAYS_TO_SHOW : response[t].columns[i].events = <<>>
                        /\ response[t].all_day_events = <<>>

\* a page rendered from the data of an earlier fetch after the upstream failed
C6_Witness ==
    \E t \in Rendered :
        /\ results[t] # None /\ results[t].raised = "upstream"
        /\ last_good # None
        /\ \E i \in 1..DAYS_TO_SHOW : response[t].columns[i].events # <<>>

\* the start of a raw timed event in the display timezone, in minutes
LocalStart(raw) ==
    LET utc == IF raw.dtstart.tzinfo = None THEN raw.dtstart.minute
               ELSE raw.dtstart.minute - raw.dtstart.tzinfo.utcoffset
    IN  IF utc < DstStart THEN utc + MinutesPerHour ELSE utc + 2 * MinutesPerHour

\* C7: a timed event without an end gets as start the "HH:MM" of its start in
\* the display timezone and as end the "HH:MM" one hour later, past midnight
\* 23:mm gives 00:mm.
C7_DefaultEndOneHour ==
    \A t \in Built :
        \A x \in TimedOf(data[t]) :
            LET raw == results[t].events[x.summary] IN
            raw.dtend = None =>
                /\ Len(x.time) = 4 /\ Len(x.end_time) = 4
                /\ MinuteOfDay(x.time) = LocalStart(raw) % MinutesPerDay
                /\ MinuteOfDay(x.end_time) =
                       (MinuteOfDay(x.time) + MinutesPerHour) % MinutesPerDay

\* events without an end: one at 23:30 that ends at 00:30, and one that
\* starts in the hour before the clocks go forward
C7_Witness ==
    \E t \in Built :
        /\ \E x \in TimedOf(data[t]) :
            /\ results[t].events[x.summary].dtend = None
            /\ x.time = <<2, 3, 3, 0>> /\ x.end_time = <<0, 0, 3, 0>>
        /\ \E x \in TimedOf(data[t]) :
            /\ results[t].events[x.summary].dtend = None
            /\ x.time = <<0, 1, 3, 0>> /\ x.end_time = <<0, 2, 3, 0>>

\* C8: every timed event of the results is in the bucket of the date of its
\* start in the display timezone and in no other; every bucket is
\* non-decreasing by sort key, events of equal key in the order of the results.
C8_BucketsSortedStable ==
    \A t \in Built :
        LET ev == results[t].events
            timed == data[t].timed
            places(i) == {p \in (DOMAIN timed) \X (1..MaxEvents) :
                             /\ p[2] <= Len(timed[p[1]])
                             /\ timed[p[1]][p[2]].summary = i}
        IN  /\ \A i \in 1..Len(ev) :
                   ev[i].dtstart.type = "datetime" =>
                       /\ Cardinality(places(i)) = 1
                       /\ \A p \in places(i) : p[1] = LocalStart(ev[i]) \div MinutesPerDay
            /\ \A day \in DOMAIN timed :
                   \A j, k \in 1..Len(timed[day]) :
                       j < k =>
                           /\ timed[day][j].sort_key.minute <= timed[day][k].sort_key.minute
                           /\ timed[day][j].sort_key.minute = timed[day][k].sort_key.minute
                                => timed[day][j].summary < timed[day][k].summary

\* a bucket that holds two events of equal sort key behind a later one that
\* came first in the results
C8_Witness ==
    \E t \in Built :
        \E day \in DOMAIN data[t].timed :
            LET b == data[t].timed[day] IN
            /\ Len(b) = 3
            /\ b[1].sort_key.minute = b[2].sort_key.minute
            /\ b[2].sort_key.minute < b[3].sort_key.minute
            /\ b[3].summary = 1 

\* C9: the theme is 'light' or 'dark'; a THEME of 'light' or 'dark' is the
\* theme whatever the coordinates and the time are; with THEME 'auto' and a
\* latitude or longitude that is missing the theme is 'dark'.
C9_ThemeMode ==
    \A t \in Threads :
        pc[t] # "idle" =>
            /\ theme[t] \in {"light", "dark"}
            /\ THEME \in {"light", "dark"} => theme[t] = THEME
            /\ (THEME = "auto" /\ (is_falsy(LATITUDE) \/ is_falsy(LONGITUDE)))
                  => theme[t] = "dark"

\* a forced 'dark' at a time of day and place where 'auto' gives 'light'
C9_Witness ==
    \E t \in Threads :
        /\ pc[t] # "idle"
        /\ theme[t] = "dark" /\ THEME = "dark"
        /\ ~is_falsy(LATITUDE) /\ ~is_falsy(LONGITUDE)
        /\ get_theme_mode("auto", LATITUDE, LONGITUDE,
                          [sunrise |-> 6 * MinutesPerHour, sunset |-> 18 * MinutesPerHour],
                          now[t]) = "light"

\* C10: a request that found a fresh timestamp in CACHE finds CACHE['data']
\* present and equal to the data of the fetch that wrote the timestamp.
C10_TimestampWithItsData ==
    \A t \in Threads :
        pc[t] = "cache_hit" =>
            /\ "data" \in DOMAIN CACHE
            /\ CACHE["data"] = timestamp_data

====
